---- MODULE Spec2Model ----
(***************************************************************************)
(* ValidatorContextBackwardsCompatibilityMixin                             *)
(* (src/validator_context_backport_mixin.py).                              *)
(*                                                                         *)
(* Worker threads call set_context(context) on instances of validator      *)
(* classes that use the mixin, and invoke the instances.  Every class      *)
(* attribute read and write of the source is one step, so threads          *)
(* interleave between any two of them.  Attribute reads go through the     *)
(* class hierarchy as Python's lookup does (own __dict__, then the base    *)
(* classes, then the mixin); attribute writes go to the class's own        *)
(* __dict__.                                                               *)
(***************************************************************************)
EXTENDS Integers, Sequences, FiniteSets, TLC

\* ---------------------------------------------------------------- universe

Threads  == {"t1", "t2"}
\* Two validator classes that use the mixin, each defining its own __call__.
\* A derives from the mixin directly; B derives from the mixin directly (a
\* sibling of A) or from A, see bases.
Classes  == {"A", "B"}
Mixin    == "Mixin"
Contexts == {"c1", "c2"}

\* Total number of set_context calls and of invocations in one behaviour.
MaxCalls   == 2
MaxInvokes == 1

\* Shapes of a validator's __call__: declared parameters, then the local
\* variables of its body (co_varnames lists both, in this order).
SigCtx     == [params |-> <<"self", "value", "serializer_field">>, locals |-> <<>>]
SigNoCtx   == [params |-> <<"self", "value">>, locals |-> <<>>]
SigNoCtxLocal == [params |-> <<"self", "value">>, locals |-> <<"x">>]
Signatures == {SigCtx, SigNoCtx, SigNoCtxLocal}

\* Values of an attribute slot of a class's own __dict__.
AbsentLock == -1    \* no own _dunder_call_lock
NoLock     == 0     \* None
AbsentEntry == [fn |-> "absent", layers |-> <<>>]
NoEntry     == [fn |-> "None", layers |-> <<>>]
AbsentFlag  == "absent"
FlagValues  == {"True", "False", AbsentFlag}

\* A callable stored as (or read from) a class's __call__: the plain function
\* defined by class fn, wrapped by zero or more partialmethod layers, each
\* holding one keyword binding.
Fn(c) == [fn |-> c, layers |-> <<>>]

VARIABLES
    bases,              \* bases[c]: the class c derives from
    sig,                \* sig[c]: shape of the __call__ class c defines
    lockAttr,           \* own _dunder_call_lock of each class
    origAttr,           \* own _original_dunder_call of each class
    callAttr,           \* own __call__ of each class
    flagAttr,           \* own requires_context of each class
    requires_context0,  \* the requires_context each class was declared with
    locked,             \* the Lock objects currently held
    nLocks,             \* number of Lock objects created so far
    pc,                 \* position of each thread
    self_cls,           \* type(self) of the thread's set_context call
    context,            \* its context argument
    guard,              \* the Lock its guard property returned
    context_param_name, \* its local context_param_name
    outcome,            \* how each thread's last set_context ended
    calls,              \* per class: set_context calls started on it
    captures,           \* per class: executions of _save_original_dunder_call
    delivered,          \* per class: contexts of the completed deliveries
    lastRebind,         \* per class: context of the last final rebinding
    invoked,            \* record of the last invocation
    host,               \* per thread: the host's serving of one validator
    invokes             \* invocations made

\* What the class statements declare; no operation changes it.
decl == <<bases, sig, requires_context0>>

vars == <<decl, lockAttr, origAttr, callAttr, flagAttr, locked, nLocks, pc,
          self_cls, context, guard, context_param_name, outcome, calls,
          captures, delivered, lastRebind, invoked, invokes, host>>

\* ------------------------------------------------------- attribute lookup

Base(c) == bases[c]

\* cls._dunder_call_lock: own slot, else the bases', else the mixin's None.
ReadLock(c) ==
    IF lockAttr[c] # AbsentLock THEN lockAttr[c]
    ELSE IF Base(c) = Mixin THEN NoLock
    ELSE IF lockAttr[Base(c)] # AbsentLock THEN lockAttr[Base(c)]
    ELSE NoLock

\* cls._original_dunder_call: own slot, else the bases', else the mixin's None.
ReadOriginal(c) ==
    IF origAttr[c] # AbsentEntry THEN origAttr[c]
    ELSE IF Base(c) = Mixin THEN NoEntry
    ELSE IF origAttr[Base(c)] # AbsentEntry THEN origAttr[Base(c)]
    ELSE NoEntry

\* cls.__call__: own slot, else the bases'.
ReadCall(c) ==
    IF callAttr[c] # AbsentEntry THEN callAttr[c]
    ELSE IF Base(c) = Mixin THEN AbsentEntry
    ELSE callAttr[Base(c)]

\* cls.requires_context as the host reads it: own slot, else the bases';
\* the mixin defines none.
ReadFlag(c) ==
    IF flagAttr[c] # AbsentFlag THEN flagAttr[c]
    ELSE IF Base(c) = Mixin THEN AbsentFlag
    ELSE flagAttr[Base(c)]

\* ---------------------------------------------------- callables and calls

Range(s) == {s[i] : i \in 1..Len(s)}

\* cls.__call__.__code__.co_varnames.  A partialmethod read through the class
\* is the function _method(cls_or_self, /, *args, **keywords) of functools.
CoVarnames(e) ==
    IF e.layers = <<>> THEN sig[e.fn].params \o sig[e.fn].locals
    ELSE <<"cls_or_self", "args", "keywords">>

\* functools.partialmethod(func, **{name: ctx}).
Partialmethod(e, name, ctx) ==
    [fn |-> e.fn, layers |-> Append(e.layers, [name |-> name, ctx |-> ctx])]

\* The keywords the layers of e pass down to the plain function: each layer
\* merges its own keywords under the ones it receives, so for one name the
\* outermost layer's value arrives.
KwNames(e) == {e.layers[i].name : i \in 1..Len(e.layers)}
KwValue(e, n) ==
    LET is == {i \in 1..Len(e.layers) : e.layers[i].name = n}
        top == CHOOSE i \in is : \A j \in is : j <= i
    IN  e.layers[top].ctx

TypeError(e) == [status |-> "TypeError", fn |-> e.fn, bound |-> <<>>]

\* Python's argument binding for e(*pos), pos starting with the receiver: the
\* plain function e.fn receives pos by position and the layers' keywords by
\* name.  bound[i] is the value its i-th declared parameter receives.
Apply(e, pos) ==
    LET params == sig[e.fn].params
        np     == Len(params)
    IN  IF Len(pos) > np THEN TypeError(e)
        ELSE IF \E n \in KwNames(e) : n \notin Range(params) THEN TypeError(e)
        ELSE IF \E i \in 1..Len(pos) : params[i] \in KwNames(e) THEN TypeError(e)
        ELSE IF \E i \in (Len(pos) + 1)..np : params[i] \notin KwNames(e)
             THEN TypeError(e)
        ELSE [status |-> "ok", fn |-> e.fn,
              bound |-> [i \in 1..np |->
                           IF i <= Len(pos) THEN pos[i] ELSE KwValue(e, params[i])]]

\* f(self, value, C) called directly, every argument by position.
Direct(f, pos) ==
    IF Len(pos) = Len(sig[f].params)
    THEN [status |-> "ok", fn |-> f, bound |-> pos]
    ELSE [status |-> "TypeError", fn |-> f, bound |-> <<>>]

NoInvocation == [cls |-> "None", entry |-> NoEntry, result |-> TypeError(NoEntry),
                 delivered |-> <<>>, explicit |-> "None"]

\* A host thread that is not serving a validator.
NoHost == [cls |-> "None", ctx |-> "None", flag |-> "None"]

\* ------------------------------------------------------------------- Init

Init ==
    /\ \E b \in {Mixin, "A"} :
           bases = [c \in Classes |-> IF c = "B" THEN b ELSE Mixin]
    /\ \E s \in Signatures : sig = [c \in Classes |-> s]
    /\ \E f \in FlagValues : /\ flagAttr = [c \in Classes |-> f]
                              /\ requires_context0 = f
    /\ lockAttr = [c \in Classes |-> AbsentLock]
    /\ origAttr = [c \in Classes |-> AbsentEntry]
    /\ callAttr = [c \in Classes |-> Fn(c)]
    /\ locked = {}
    /\ nLocks = 0
    /\ pc = [t \in Threads |-> "idle"]
    /\ self_cls = [t \in Threads |-> "None"]
    /\ context = [t \in Threads |-> "None"]
    /\ guard = [t \in Threads |-> NoLock]
    /\ context_param_name = [t \in Threads |-> "None"]
    /\ outcome = [t \in Threads |-> "None"]
    /\ calls = [c \in Classes |-> 0]
    /\ captures = [c \in Classes |-> 0]
    /\ delivered = [c \in Classes |-> <<>>]
    /\ lastRebind = [c \in Classes |-> "None"]
    /\ invoked = NoInvocation
    /\ invokes = 0
    /\ host = [t \in Threads |-> NoHost]

\* ------------------------------------------------------------ set_context

TotalCalls == calls["A"] + calls["B"]

AllIdle == \A t \in Threads : pc[t] = "idle"

\* The body of the with-block of set_context, from the `if` to the last
\* statement of the rebinding.
WithBody == {"check_saved", "save", "disable", "provide_reset", "provide_name",
             "provide_bind"}
InWith(c) == {t \in Threads : pc[t] \in WithBody /\ self_cls[t] = c}

\* A thread calls self.set_context(context) on an instance of class c.
Begin(t, c, x) ==
    /\ pc[t] = "idle"
    /\ TotalCalls < MaxCalls
    /\ calls' = [calls EXCEPT ![c] = @ + 1]
    /\ self_cls' = [self_cls EXCEPT ![t] = c]
    /\ context' = [context EXCEPT ![t] = x]
    /\ guard' = [guard EXCEPT ![t] = NoLock]
    /\ context_param_name' = [context_param_name EXCEPT ![t] = "None"]
    /\ outcome' = [outcome EXCEPT ![t] = "None"]
    /\ pc' = [pc EXCEPT ![t] = "guard_check"]
    /\ UNCHANGED <<decl, lockAttr, origAttr, callAttr, flagAttr, locked,
                   nLocks, captures, delivered, lastRebind, invoked, invokes>>

\* set_context called by a caller that follows no host protocol.
SetContext(t, c, x) == Begin(t, c, x) /\ UNCHANGED host

\* _dunder_call_modification_guard: `if not cls._dunder_call_lock`.
GuardCheck(t) ==
    /\ pc[t] = "guard_check"
    /\ pc' = [pc EXCEPT ![t] = IF ReadLock(self_cls[t]) = NoLock
                                THEN "guard_create" ELSE "guard_return"]
    /\ UNCHANGED <<decl, host, lockAttr, origAttr, callAttr, flagAttr, locked,
                   nLocks, self_cls, context, guard, context_param_name,
                   outcome, calls, captures, delivered, lastRebind, invoked,
                   invokes>>

\* `cls._dunder_call_lock = threading.Lock()`: a new Lock object, stored in
\* the class's own __dict__.
GuardCreate(t) ==
    /\ pc[t] = "guard_create"
    /\ nLocks' = nLocks + 1
    /\ lockAttr' = [lockAttr EXCEPT ![self_cls[t]] = nLocks + 1]
    /\ pc' = [pc EXCEPT ![t] = "guard_return"]
    /\ UNCHANGED <<decl, host, origAttr, callAttr, flagAttr, locked, self_cls,
                   context, guard, context_param_name, outcome, calls,
                   captures, delivered, lastRebind, invoked, invokes>>

\* `return cls._dunder_call_lock`: the attribute is read again.
GuardReturn(t) ==
    /\ pc[t] = "guard_return"
    /\ guard' = [guard EXCEPT ![t] = ReadLock(self_cls[t])]
    /\ pc' = [pc EXCEPT ![t] = "acquire"]
    /\ UNCHANGED <<decl, host, lockAttr, origAttr, callAttr, flagAttr, locked,
                   nLocks, self_cls, context, context_param_name, outcome,
                   calls, captures, delivered, lastRebind, invoked, invokes>>

\* `with <guard>:` blocks until the returned Lock is free and takes it.
Acquire(t) ==
    /\ pc[t] = "acquire"
    /\ guard[t] \notin locked
    /\ locked' = locked \cup {guard[t]}
    /\ pc' = [pc EXCEPT ![t] = "check_saved"]
    /\ UNCHANGED <<decl, host, lockAttr, origAttr, callAttr, flagAttr, nLocks,
                   self_cls, context, guard, context_param_name, outcome,
                   calls, captures, delivered, lastRebind, invoked, invokes>>

\* CheckSaved with the test dropped: every call captures.
CheckSavedAlways(t) ==
    /\ pc[t] = "check_saved"
    /\ pc' = [pc EXCEPT ![t] = "save"]
    /\ UNCHANGED <<decl, host, lockAttr, origAttr, callAttr, flagAttr, locked,
                   nLocks, self_cls, context, guard, context_param_name,
                   outcome, calls, captures, delivered, lastRebind, invoked,
                   invokes>>

\* CheckSaved with the rebinding inside the `if`: only the first call rebinds.
CheckSavedRebindsOnce(t) ==
    /\ pc[t] = "check_saved"
    /\ pc' = [pc EXCEPT ![t] = IF ReadOriginal(self_cls[t]) = NoEntry
                                THEN "save" ELSE "release"]
    /\ UNCHANGED <<decl, host, lockAttr, origAttr, callAttr, flagAttr, locked,
                   nLocks, self_cls, context, guard, context_param_name,
                   outcome, calls, captures, delivered, lastRebind, invoked,
                   invokes>>

\* `if not self._original_dunder_call`.
CheckSaved(t) ==
    /\ pc[t] = "check_saved"
    /\ pc' = [pc EXCEPT ![t] = IF ReadOriginal(self_cls[t]) = NoEntry
                                THEN "save" ELSE "provide_reset"]
    /\ UNCHANGED <<decl, host, lockAttr, origAttr, callAttr, flagAttr, locked,
                   nLocks, self_cls, context, guard, context_param_name,
                   outcome, calls, captures, delivered, lastRebind, invoked,
                   invokes>>

\* _save_original_dunder_call: `cls._original_dunder_call = cls.__call__`.
SaveOriginalDunderCall(t) ==
    /\ pc[t] = "save"
    /\ origAttr' = [origAttr EXCEPT ![self_cls[t]] = ReadCall(self_cls[t])]
    /\ captures' = [captures EXCEPT ![self_cls[t]] = @ + 1]
    /\ pc' = [pc EXCEPT ![t] = "disable"]
    /\ UNCHANGED <<decl, host, lockAttr, callAttr, flagAttr, locked, nLocks,
                   self_cls, context, guard, context_param_name, outcome,
                   calls, delivered, lastRebind, invoked, invokes>>

\* _disable_requires_context_flag: `cls.requires_context = False`.
DisableRequiresContextFlag(t) ==
    /\ pc[t] = "disable"
    /\ flagAttr' = [flagAttr EXCEPT ![self_cls[t]] = "False"]
    /\ pc' = [pc EXCEPT ![t] = "provide_reset"]
    /\ UNCHANGED <<decl, host, lockAttr, origAttr, callAttr, locked, nLocks,
                   self_cls, context, guard, context_param_name, outcome,
                   calls, captures, delivered, lastRebind, invoked, invokes>>

\* _provide_context_to_dunder_call: `cls.__call__ = cls._original_dunder_call`.
ProvideReset(t) ==
    /\ pc[t] = "provide_reset"
    /\ callAttr' = [callAttr EXCEPT ![self_cls[t]] = ReadOriginal(self_cls[t])]
    /\ pc' = [pc EXCEPT ![t] = "provide_name"]
    /\ UNCHANGED <<decl, host, lockAttr, origAttr, flagAttr, locked, nLocks,
                   self_cls, context, guard, context_param_name, outcome,
                   calls, captures, delivered, lastRebind, invoked, invokes>>

\* The index of `co_varnames[2]`, counted from 1.
ContextParamIndex == 3

\* ProvideName reading co_varnames[1], the first parameter after the receiver.
ProvideNameFirstParameter(t) ==
    LET names == CoVarnames(ReadCall(self_cls[t])) IN
    /\ pc[t] = "provide_name"
    /\ IF Len(names) >= ContextParamIndex - 1
       THEN /\ context_param_name' =
                   [context_param_name EXCEPT ![t] = names[ContextParamIndex - 1]]
            /\ pc' = [pc EXCEPT ![t] = "provide_bind"]
       ELSE /\ context_param_name' = context_param_name
            /\ pc' = [pc EXCEPT ![t] = "raising"]
    /\ UNCHANGED <<decl, host, lockAttr, origAttr, callAttr, flagAttr, locked,
                   nLocks, self_cls, context, guard, outcome, calls, captures,
                   delivered, lastRebind, invoked, invokes>>

\* `context_param_name = cls.__call__.__code__.co_varnames[2]`; IndexError
\* when co_varnames has fewer than three names.
ProvideName(t) ==
    LET names == CoVarnames(ReadCall(self_cls[t])) IN
    /\ pc[t] = "provide_name"
    /\ IF Len(names) >= ContextParamIndex
       THEN /\ context_param_name' =
                   [context_param_name EXCEPT ![t] = names[ContextParamIndex]]
            /\ pc' = [pc EXCEPT ![t] = "provide_bind"]
       ELSE /\ context_param_name' = context_param_name
            /\ pc' = [pc EXCEPT ![t] = "raising"]
    /\ UNCHANGED <<decl, host, lockAttr, origAttr, callAttr, flagAttr, locked,
                   nLocks, self_cls, context, guard, outcome, calls, captures,
                   delivered, lastRebind, invoked, invokes>>

\* `cls.__call__ = functools.partialmethod(cls.__call__, **{name: context})`.
ProvideBind(t) ==
    /\ pc[t] = "provide_bind"
    /\ callAttr' = [callAttr EXCEPT ![self_cls[t]] =
                       Partialmethod(ReadCall(self_cls[t]),
                                     context_param_name[t], context[t])]
    /\ lastRebind' = [lastRebind EXCEPT ![self_cls[t]] = context[t]]
    /\ pc' = [pc EXCEPT ![t] = "release"]
    /\ UNCHANGED <<decl, host, lockAttr, origAttr, flagAttr, locked, nLocks,
                   self_cls, context, guard, context_param_name, outcome,
                   calls, captures, delivered, invoked, invokes>>

\* The with-block ends: the guard is released and set_context returns.
Release(t) ==
    /\ pc[t] = "release"
    /\ locked' = locked \ {guard[t]}
    /\ delivered' = [delivered EXCEPT ![self_cls[t]] = Append(@, context[t])]
    /\ outcome' = [outcome EXCEPT ![t] = "returned"]
    /\ context' = [context EXCEPT ![t] = "None"]
    /\ guard' = [guard EXCEPT ![t] = NoLock]
    /\ context_param_name' = [context_param_name EXCEPT ![t] = "None"]
    /\ self_cls' = [self_cls EXCEPT ![t] = "None"]
    /\ pc' = [pc EXCEPT ![t] = "idle"]
    /\ UNCHANGED <<decl, host, lockAttr, origAttr, callAttr, flagAttr, nLocks, calls,
                   captures, lastRebind, invoked, invokes>>

\* Raise with the guard kept: the IndexError skips the release.
RaiseKeepsGuard(t) ==
    /\ pc[t] = "raising"
    /\ outcome' = [outcome EXCEPT ![t] = "IndexError"]
    /\ context' = [context EXCEPT ![t] = "None"]
    /\ guard' = [guard EXCEPT ![t] = NoLock]
    /\ context_param_name' = [context_param_name EXCEPT ![t] = "None"]
    /\ self_cls' = [self_cls EXCEPT ![t] = "None"]
    /\ pc' = [pc EXCEPT ![t] = "idle"]
    /\ UNCHANGED <<decl, host, lockAttr, origAttr, callAttr, flagAttr, locked,
                   nLocks, calls, captures, delivered, lastRebind, invoked,
                   invokes>>

\* The IndexError leaves the with-block: the guard is released and
\* set_context raises.
Raise(t) ==
    /\ pc[t] = "raising"
    /\ locked' = locked \ {guard[t]}
    /\ outcome' = [outcome EXCEPT ![t] = "IndexError"]
    /\ context' = [context EXCEPT ![t] = "None"]
    /\ guard' = [guard EXCEPT ![t] = NoLock]
    /\ context_param_name' = [context_param_name EXCEPT ![t] = "None"]
    /\ self_cls' = [self_cls EXCEPT ![t] = "None"]
    /\ pc' = [pc EXCEPT ![t] = "idle"]
    /\ UNCHANGED <<decl, host, lockAttr, origAttr, callAttr, flagAttr, nLocks, calls,
                   captures, delivered, lastRebind, invoked, invokes>>

\* ------------------------------------------------------------- invocation

\* A thread invokes an instance of class c the legacy way, validator(value):
\* type(validator).__call__ is read once and called with the receiver and
\* the value.
Invoke(t, c) ==
    /\ pc[t] = "idle"
    /\ invokes < MaxInvokes
    /\ invokes' = invokes + 1
    /\ invoked' = [cls |-> c, entry |-> ReadCall(c),
                   result |-> Apply(ReadCall(c), <<c, "v">>),
                   delivered |-> delivered[c], explicit |-> "None"]
    /\ UNCHANGED <<decl, host, lockAttr, origAttr, callAttr, flagAttr, locked,
                   nLocks, pc, self_cls, context, guard, context_param_name,
                   outcome, calls, captures, delivered, lastRebind>>

\* ------------------------------------------------------- the host's protocol

\* A host that knows both conventions serves one validator of class c: it
\* first calls validator.set_context(context).  An IndexError of an earlier
\* serving propagated to the host, which abandoned that validator.
HostSetContext(t, c, x) ==
    /\ host[t] = NoHost \/ outcome[t] = "IndexError"
    /\ Begin(t, c, x)
    /\ host' = [host EXCEPT ![t] = [cls |-> c, ctx |-> x, flag |-> "None"]]

\* set_context has returned: the host reads validator.requires_context
\* (getattr with False as the default).
HostReadFlag(t) ==
    /\ pc[t] = "idle"
    /\ outcome[t] = "returned"
    /\ host[t] # NoHost
    /\ host[t].flag = "None"
    /\ host' = [host EXCEPT ![t].flag =
                    IF ReadFlag(host[t].cls) = "True" THEN "True" ELSE "False"]
    /\ UNCHANGED <<decl, lockAttr, origAttr, callAttr, flagAttr, locked,
                   nLocks, pc, self_cls, context, guard, context_param_name,
                   outcome, calls, captures, delivered, lastRebind, invoked,
                   invokes>>

\* The host invokes the validator: validator(value, context) if the flag it
\* read was enabled, validator(value) otherwise.
HostInvoke(t) ==
    /\ pc[t] = "idle"
    /\ host[t] # NoHost
    /\ host[t].flag # "None"
    /\ invokes < MaxInvokes
    /\ invokes' = invokes + 1
    /\ LET c == host[t].cls
           pos == IF host[t].flag = "True" THEN <<c, "v", host[t].ctx>>
                                           ELSE <<c, "v">>
       IN invoked' = [cls |-> c, entry |-> ReadCall(c),
                      result |-> Apply(ReadCall(c), pos),
                      delivered |-> delivered[c],
                      explicit |-> IF host[t].flag = "True" THEN host[t].ctx
                                                            ELSE "None"]
    /\ host' = [host EXCEPT ![t] = NoHost]
    /\ UNCHANGED <<decl, lockAttr, origAttr, callAttr, flagAttr, locked,
                   nLocks, pc, self_cls, context, guard, context_param_name,
                   outcome, calls, captures, delivered, lastRebind>>

\* ---------------------------------------------------------- specifications

Step(t) ==
    \/ GuardCheck(t)
    \/ GuardCreate(t)
    \/ GuardReturn(t)
    \/ Acquire(t)
    \/ CheckSaved(t)
    \/ SaveOriginalDunderCall(t)
    \/ DisableRequiresContextFlag(t)
    \/ ProvideReset(t)
    \/ ProvideName(t)
    \/ ProvideBind(t)
    \/ Release(t)
    \/ Raise(t)

\* Worker threads deliver and invoke concurrently.
Next ==
    \E t \in Threads :
        \/ \E c \in Classes, x \in Contexts : SetContext(t, c, x)
        \/ Step(t)
        \/ \E c \in Classes : Invoke(t, c)

Spec == Init /\ [][Next]_vars

\* Sequential histories: a delivery or an invocation starts only when no
\* delivery is in progress (the calls may still come from different threads).
NextSeq ==
    \E t \in Threads :
        \/ \E c \in Classes, x \in Contexts : AllIdle /\ SetContext(t, c, x)
        \/ Step(t)
        \/ \E c \in Classes : AllIdle /\ Invoke(t, c)

SpecSeq == Init /\ [][NextSeq]_vars

\* Host worker threads that each follow the protocol, concurrently.
NextHost ==
    \E t \in Threads :
        \/ \E c \in Classes, x \in Contexts : HostSetContext(t, c, x)
        \/ Step(t)
        \/ HostReadFlag(t)
        \/ HostInvoke(t)

SpecHost == Init /\ [][NextHost]_vars

\* The context delivered where its value plays no part: set_context never
\* inspects it.
AnyContext == CHOOSE x \in Contexts : TRUE

\* Classes that declare the capability.  set_context only writes
\* requires_context (line 61), it never reads it.
InitDeliver == Init /\ requires_context0 = "True"

\* Deliveries alone.
NextDeliver ==
    \E t \in Threads :
        \/ \E c \in Classes : SetContext(t, c, AnyContext)
        \/ Step(t)

\* Each thread is scheduled fairly: a thread inside set_context that can
\* take its next step eventually takes it.  Callers are not obliged to call.
SpecFair ==
    InitDeliver /\ [][NextDeliver]_vars /\ \A t \in Threads : WF_vars(Step(t))

TypeOK ==
    /\ \A c \in Classes : sig[c] \in Signatures
    /\ \A c \in Classes : lockAttr[c] \in {AbsentLock} \cup (1..nLocks)
    /\ \A c \in Classes : flagAttr[c] \in FlagValues
    /\ locked \subseteq 1..nLocks
    /\ \A c \in Classes : captures[c] \in 0..calls[c]
    /\ \A c \in Classes : Len(delivered[c]) <= calls[c]
    /\ TotalCalls \in 0..MaxCalls
    /\ invokes \in 0..MaxInvokes
    /\ \A t \in Threads : host[t].cls \in Classes \cup {"None"}

\* ------------------------------------------------------------ properties

\* The class's __call__ declares the context parameter co_varnames[2] names.
DeclaresContext(c) == Len(sig[c].params) >= ContextParamIndex

\* The class's requires_context, as the host reads it before an invocation
\* (getattr with False as the default), is enabled.
FlagEnabled(c) == ReadFlag(c) = "True"

\* The class's own __call__ supplies a context by itself.
Patched(c) == callAttr[c].layers # <<>>

\* C1: first use is thread-safe.  For a class that derives from the mixin
\* directly and declares the context parameter: once deliveries on it have
\* completed and no set_context call is in progress, the capture step has
\* run exactly once for the class, the captured original is the entry point
\* the class had before any delivery, and the capability flag reads disabled.
C1_CaptureOnceUnderConcurrentFirstUse ==
    \A c \in Classes :
        (AllIdle /\ bases[c] = Mixin /\ DeclaresContext(c) /\ delivered[c] # <<>>)
            => /\ captures[c] = 1
               /\ origAttr[c] = Fn(c)
               /\ ~FlagEnabled(c)

\* C2: guard creation is race-free.  No Lock object stored for a class is
\* ever replaced by another (every Lock created is still the guard of a
\* class), and two threads delivering on the same class never hold two
\* distinct guards.
C2_OneGuardPerClass ==
    /\ nLocks = Cardinality({c \in Classes : lockAttr[c] # AbsentLock})
    /\ \A t, u \in Threads :
           (/\ self_cls[t] = self_cls[u]
            /\ guard[t] # NoLock
            /\ guard[u] # NoLock) => guard[t] = guard[u]

\* C3: mutual exclusion.  At most one thread is inside the body of the
\* with-block of set_context for a given class.
C3_MutualExclusion ==
    \A c \in Classes : Cardinality(InWith(c)) <= 1

\* C4: capture is idempotent over sequential calls.  Every execution of the
\* capture step on a class is its first, happens before any rebinding of the
\* class and stores the entry point the class had before its first call; a
\* captured slot is never written again; and the captured original a rebound
\* class uses is a plain function, never a wrapper: for a class that derives
\* from the mixin directly, the entry point it had before its first call.
C4_IdempotentCapture ==
    [][\A c \in Classes :
          /\ (captures'[c] # captures[c])
                => /\ captures[c] = 0
                   /\ lastRebind[c] = "None"
                   /\ origAttr'[c] = Fn(c)
          /\ (origAttr'[c] # origAttr[c])
                => /\ origAttr[c] = AbsentEntry
                   /\ captures'[c] = captures[c] + 1
          /\ lastRebind'[c] # "None"
                => /\ ReadOriginal(c)'.layers = <<>>
                   /\ bases[c] = Mixin => origAttr'[c] = Fn(c)]_vars

\* Two sequential deliveries on one class completed: it captured once, its
\* own entry point, and is rebound.
C4_Witness ==
    \E c \in Classes :
        /\ AllIdle
        /\ Len(delivered[c]) = MaxCalls
        /\ captures[c] = 1
        /\ origAttr[c] = Fn(c)
        /\ Patched(c)

\* C5: once the first delivery on a class (whose __call__ declares the
\* context parameter) has completed, every invocation of the class runs a
\* wrapped entry point and receives a delivered context, also while a later
\* delivery is rebinding.
C5_InvocationAlwaysSeesContext ==
    (/\ invoked.cls # "None"
     /\ invoked.delivered # <<>>
     /\ DeclaresContext(invoked.cls))
        => /\ invoked.entry.layers # <<>>
           /\ invoked.result.status = "ok"
           /\ invoked.result.bound[ContextParamIndex] \in Contexts

\* C6: last write wins.  In a sequential history an invocation of a class
\* (whose __call__ declares the context parameter) made after deliveries on
\* the class completed receives the context of the last of them.
C6_LastWriteWins ==
    (/\ invoked.cls # "None"
     /\ invoked.delivered # <<>>
     /\ DeclaresContext(invoked.cls))
        => /\ invoked.result.status = "ok"
           /\ invoked.result.bound[ContextParamIndex]
                  = invoked.delivered[Len(invoked.delivered)]

\* C1 and then a different C2 were delivered to a class, and the invocation
\* that followed received C2.
C6_Witness ==
    /\ invoked.cls # "None"
    /\ Len(invoked.delivered) = 2
    /\ invoked.delivered[1] # invoked.delivered[2]
    /\ invoked.result.status = "ok"
    /\ invoked.result.bound[ContextParamIndex] = invoked.delivered[2]

\* C7: context forwarding.  With f the original entry point captured for
\* the class (declaring the context parameter) and C the context delivered
\* last, validator(value) on the rebound class gives what f(self, value, C)
\* gives, and the wrapper binds the one name f declares as its second
\* parameter after the receiver.
C7_ContextForwarding ==
    (/\ invoked.cls # "None"
     /\ invoked.delivered # <<>>
     /\ DeclaresContext(invoked.cls))
        => LET f == ReadOriginal(invoked.cls).fn
               C == invoked.delivered[Len(invoked.delivered)]
           IN  /\ invoked.result = Direct(f, <<invoked.cls, "v", C>>)
               /\ KwNames(invoked.entry) = {sig[f].params[ContextParamIndex]}

\* A rebound entry point was invoked and ran the original with the context.
C7_Witness ==
    /\ invoked.cls # "None"
    /\ invoked.delivered # <<>>
    /\ invoked.entry.layers # <<>>
    /\ invoked.result.status = "ok"
    /\ invoked.result.fn = invoked.cls
    /\ Len(invoked.result.bound) = ContextParamIndex

\* C8: flag suppression.  Every class through whose instances a delivery
\* has completed reads its capability flag disabled, and no class is both
\* Patched and flagged enabled.
C8_FlagSuppressed ==
    \A c \in Classes :
        /\ delivered[c] # <<>> => ~FlagEnabled(c)
        /\ ~(Patched(c) /\ FlagEnabled(c))

\* C9: isolation across classes.  While no delivery was made to a class its
\* own entry point, captured-original slot and guard slot are as declared
\* and its capability flag reads as declared, whatever was delivered to the
\* other class; and a class that received a delivery has captured its own
\* entry point and has a guard of its own.
C9_IsolationAcrossClasses ==
    \A c \in Classes :
        /\ calls[c] = 0
              => /\ callAttr[c] = Fn(c)
                 /\ FlagEnabled(c) <=> requires_context0 = "True"
                 /\ origAttr[c] = AbsentEntry
                 /\ lockAttr[c] = AbsentLock
        /\ delivered[c] # <<>>
              => /\ origAttr[c] = Fn(c)
                 /\ lockAttr[c] # AbsentLock
                 /\ \A d \in Classes \ {c} : lockAttr[d] # lockAttr[c]

\* C10: missing-parameter error.  A delivery on a class whose __call__
\* declares no context parameter never returns normally: it raises.
C10_MissingParameterRaises ==
    /\ \A c \in Classes : delivered[c] # <<>> => DeclaresContext(c)
    /\ (\A c \in Classes : ~DeclaresContext(c))
          => \A t \in Threads : outcome[t] \in {"None", "IndexError"}

\* Every delivery so far was made on instances of class c.
OnlyClass(c) == \A d \in Classes \ {c} : calls[d] = 0

\* C11: with host threads that each call set_context, then read the
\* capability flag, then invoke (passing the context explicitly only if the
\* flag read enabled) on instances of one class, no invocation receives the
\* context both explicitly from the host and pre-bound by the relay.
C11_NoDuplicateContext ==
    (invoked.cls # "None" /\ OnlyClass(invoked.cls)
        /\ DeclaresContext(invoked.cls) /\ invoked.explicit # "None")
        => invoked.entry.layers = <<>>

\* Every set_context call made so far on class c has raised.
AllRaised(c) ==
    /\ calls[c] > 0
    /\ delivered[c] = <<>>
    /\ \A t \in Threads : self_cls[t] # c

\* C12: no partial failure.  A set_context call that raises leaves the
\* class's captured-original slot, capability flag and entry point as they
\* were before the call; so a class all of whose calls have raised still has
\* the slot, the flag and the entry point of its class statement.
C12_NoPartialFailure ==
    \A c \in Classes :
        AllRaised(c) => /\ origAttr[c] = AbsentEntry
                        /\ flagAttr[c] = requires_context0
                        /\ callAttr[c] = Fn(c)

\* Deliveries on class c, and on no other class, have completed and none is
\* in progress.
Settled(c) == AllIdle /\ OnlyClass(c) /\ delivered[c] # <<>>

\* The contexts delivered to class c are pairwise distinct.
DistinctContexts(c) ==
    \A i, j \in 1..Len(delivered[c]) :
        i # j => delivered[c][i] # delivered[c][j]

\* C13: concurrent last-writer-wins.  When concurrent deliveries on one
\* class (whose __call__ declares the context parameter) have all completed,
\* the entry point is bound to exactly one context, that of the delivery
\* that rebound last, and an invocation made then receives that context.
C13_ConcurrentLastWriterWins ==
    \A c \in Classes :
        (Settled(c) /\ DistinctContexts(c) /\ DeclaresContext(c))
            => /\ {callAttr[c].layers[i].ctx :
                       i \in 1..Len(callAttr[c].layers)} = {lastRebind[c]}
               /\ Apply(ReadCall(c), <<c, "v">>).status = "ok"
               /\ Apply(ReadCall(c), <<c, "v">>).bound[ContextParamIndex]
                      = lastRebind[c]

\* C14: single-layer wrapper.  Whenever deliveries on a class (whose
\* __call__ declares the context parameter) have completed and none is in
\* progress, the entry point is one wrapper with one bound
\* context applied directly to the captured original, which is the class's
\* own unwrapped __call__; the class is never unpatched again.
C14_SingleLayerWrapper ==
    \A c \in Classes :
        (Settled(c) /\ DeclaresContext(c))
            => /\ Len(callAttr[c].layers) = 1
               /\ callAttr[c].layers[1].ctx \in Contexts
               /\ callAttr[c].fn = origAttr[c].fn
               /\ origAttr[c] = Fn(c)

\* Thread t holds the guard it acquired: it is between the acquisition and
\* the exit of the with-block.
Holding(t) == pc[t] \in WithBody \cup {"release", "raising"}

\* C15: delivery terminates and releases the guard.  Under fair scheduling
\* every set_context call eventually returns or raises; a Lock is held only
\* by a call still inside its with-block, so a call that has returned or
\* raised (the IndexError included) has released its guard; and a delivery
\* waiting for the guard eventually acquires it.
C15_TerminatesAndReleases ==
    /\ [](\A l \in locked : \E t \in Threads : Holding(t) /\ guard[t] = l)
    /\ \A t \in Threads : (pc[t] # "idle") ~> (pc[t] = "idle")
    /\ \A t \in Threads : (pc[t] = "acquire") ~> (pc[t] = "check_saved")

\* A delivery on a class raised the IndexError, and a later delivery on the
\* same class, sharing its one Lock, is inside the with-block.
C15_Witness ==
    \E t, u \in Threads :
        /\ t # u
        /\ pc[t] = "idle"
        /\ outcome[t] = "IndexError"
        /\ Holding(u)
        /\ calls[self_cls[u]] = 2
        /\ nLocks = 1
        /\ locked = {guard[u]}

====
